---------------------------- MODULE Spec2Model ----------------------------
(***************************************************************************)
(* Model of lib/evaluate.py (evaluate, roc, auprc, get_values_for_pr_curve) *)
(* and lib/visualizer.py (class Visualizer).                                *)
(*                                                                          *)
(* Numbers.  Scores are fixed-point hundredths (0.20 is 20, 1 is 100).      *)
(* Rates and metric values are exact fractions <<numerator, denominator>>.  *)
(* Text is a sequence of tokens; the token NL is the newline character.     *)
(***************************************************************************)
EXTENDS Integers, Sequences, FiniteSets, TLC

VARIABLES
    labels,        \* evaluate / get_values_for_pr_curve: ground truth sequence
    scores,        \* evaluate / get_values_for_pr_curve: score sequence (mutable)
    thresholds,    \* get_values_for_pr_curve: the thresholds argument
    idx,           \* get_values_for_pr_curve: position of the for loop
    tp_counts, fp_counts, tn_counts, fn_counts, precisions, recalls,
    pc,            \* get_values_for_pr_curve: "loop", "returned" or "ValueError"
    metric,        \* evaluate: the metric argument of the last call
    result,        \* evaluate: outcome of the last call
    plot_files,    \* evaluate: ROC<epoch>.png files on disk, name -> content
    calls,         \* evaluate: number of calls made so far
    constructed,   \* Visualizer: __init__ has run
    display,       \* Visualizer: opt.display
    niter,         \* Visualizer: opt.niter
    writer,        \* Visualizer: self.writer
    log,           \* Visualizer: content of <outf>/<name>/loss_log.txt
    old_log,       \* content of loss_log.txt before construction
    img_files,     \* Visualizer: files in self.img_dir, name -> content
    dashboard,     \* tags the SummaryWriter has received
    last_call,     \* Visualizer: the last method call, its arguments and outcome
    epochs_saved,  \* epochs passed to save_current_images so far
    ops            \* Visualizer: number of method calls made so far

vars == <<labels, scores, thresholds, idx, tp_counts, fp_counts, tn_counts,
          fn_counts, precisions, recalls, pc, metric, result, plot_files,
          calls, constructed, display, niter, writer, log, old_log,
          img_files, dashboard, last_call, epochs_saved, ops>>

prVars == <<thresholds, idx, tp_counts, fp_counts, tn_counts, fn_counts,
            precisions, recalls, pc>>
evVars == <<metric, result, plot_files, calls>>
visVars == <<constructed, display, niter, writer, log, old_log, img_files,
             dashboard, last_call, epochs_saved, ops>>

----------------------------------------------------------------------------
(* Bounds *)
MaxSamples == 3
MaxThresholds == 2

(* evaluate.py:31  threshold = 0.20, in hundredths *)
Threshold == 20
(* evaluate.py:32  the value 1 assigned by binarization, in hundredths *)
One == 100

(* scores just below, at and just above 0.20; thresholds from the lowest   *)
(* score to above the highest                                               *)
ScoreVals == {Threshold - 1, Threshold, Threshold + 1}
ThresholdVals == {Threshold - 1, Threshold, Threshold + 1, Threshold + 2}
LabelVals == {0, 1}

Range(s) == {s[i] : i \in DOMAIN s}
Count(S) == Cardinality(S)

SeqsUpTo(S, n) == UNION {[1..k -> S] : k \in 0..n}

RECURSIVE SortedAsc(_)
SortedAsc(S) ==
    IF S = {} THEN <<>>
    ELSE LET m == CHOOSE x \in S : \A y \in S : x <= y
         IN <<m>> \o SortedAsc(S \ {m})

RECURSIVE SortedDesc(_)
SortedDesc(S) ==
    IF S = {} THEN <<>>
    ELSE LET m == CHOOSE x \in S : \A y \in S : x >= y
         IN <<m>> \o SortedDesc(S \ {m})

(* a fraction, with sklearn's zero_division="warn" result 0.0 *)
Frac(n, d) == IF d = 0 THEN <<0, 1>> ELSE <<n, d>>

----------------------------------------------------------------------------
(* get_values_for_pr_curve *)

(* evaluate.py:92 *)
Binarize(sc, threshold) ==
    [i \in DOMAIN sc |-> IF sc[i] >= threshold THEN 1 ELSE 0]

(* sklearn confusion_matrix: a k x k matrix over the sorted labels occurring *)
(* in y_true or y_pred; entry [i][j] counts samples of true class i          *)
(* predicted as class j                                                      *)
confusion_matrix(y_true, y_pred) ==
    LET ls == SortedAsc(Range(y_true) \cup Range(y_pred))
        k == Len(ls)
    IN [i \in 1..k |-> [j \in 1..k |->
          Count({s \in DOMAIN y_true : y_true[s] = ls[i] /\ y_pred[s] = ls[j]})]]

(* numpy ravel: row-major flattening *)
ravel(m) ==
    LET k == Len(m)
    IN [p \in 1..(k * k) |-> m[((p - 1) \div k) + 1][((p - 1) % k) + 1]]

(* evaluate.py:93  tn, fp, fn, tp = ...ravel(): unpacking needs 4 values *)
UnpackFails(flat) == Len(flat) # 4

SingleClassMutant(scores_new) == \A i \in DOMAIN scores_new : scores_new[i] = 0
(* evaluate.py:94  len(set(scores_new)) == 1 *)
SingleClass(scores_new) == Count(Range(scores_new)) = 1

(* sklearn precision_recall_fscore_support(average="binary", pos_label=1) *)
PrecisionOf(y_true, y_pred) ==
    Frac(Count({s \in DOMAIN y_true : y_true[s] = 1 /\ y_pred[s] = 1}),
         Count({s \in DOMAIN y_pred : y_pred[s] = 1}))
RecallOf(y_true, y_pred) ==
    Frac(Count({s \in DOMAIN y_true : y_true[s] = 1 /\ y_pred[s] = 1}),
         Count({s \in DOMAIN y_true : y_true[s] = 1}))

UnpackSwapped(flat) == [tn |-> flat[1], fp |-> flat[3], fn |-> flat[2], tp |-> flat[4]]
(* evaluate.py:93  tn, fp, fn, tp = flat *)
Unpack(flat) == [tn |-> flat[1], fp |-> flat[2], fn |-> flat[3], tp |-> flat[4]]

VisIdle ==
    /\ constructed = FALSE /\ display = FALSE /\ niter = 0 /\ writer = "None"
    /\ log = <<>> /\ old_log = <<>> /\ img_files = <<>> /\ dashboard = {}
    /\ last_call = [op |-> "none"] /\ epochs_saved = {} /\ ops = 0
EvIdle ==
    /\ metric = "none" /\ result = [status |-> "none"] /\ plot_files = <<>>
    /\ calls = 0
PrIdle ==
    /\ thresholds = <<>> /\ idx = 1 /\ pc = "idle"
    /\ tp_counts = <<>> /\ fp_counts = <<>> /\ tn_counts = <<>>
    /\ fn_counts = <<>> /\ precisions = <<>> /\ recalls = <<>>

(* evaluate.py:84-90  entry of get_values_for_pr_curve *)
InitPR ==
    /\ \E n \in 0..MaxSamples :
          /\ labels \in [1..n -> LabelVals]
          /\ scores \in [1..n -> ScoreVals]
    /\ thresholds \in SeqsUpTo(ThresholdVals, MaxThresholds)
    /\ idx = 1 /\ pc = "loop"
    /\ tp_counts = <<>> /\ fp_counts = <<>> /\ tn_counts = <<>>
    /\ fn_counts = <<>> /\ precisions = <<>> /\ recalls = <<>>
    /\ EvIdle /\ VisIdle

ScoresNew == Binarize(scores, thresholds[idx])
Flat == ravel(confusion_matrix(labels, ScoresNew))
InLoop == pc = "loop" /\ idx <= Len(thresholds)
KeepPR == UNCHANGED <<labels, scores, thresholds, evVars, visVars>>

(* evaluate.py:93  the unpacking raises ValueError *)
IterRaise ==
    /\ InLoop
    /\ UnpackFails(Flat)
    /\ pc' = "ValueError"
    /\ UNCHANGED <<idx, tp_counts, fp_counts, tn_counts, fn_counts,
                   precisions, recalls>>
    /\ KeepPR

(* evaluate.py:94-96  the threshold is skipped *)
IterSkip ==
    /\ InLoop
    /\ ~UnpackFails(Flat)
    /\ SingleClass(ScoresNew)
    /\ idx' = idx + 1
    /\ UNCHANGED <<pc, tp_counts, fp_counts, tn_counts, fn_counts,
                   precisions, recalls>>
    /\ KeepPR

(* evaluate.py:98-104  the threshold is recorded *)
IterAppend ==
    /\ InLoop
    /\ ~UnpackFails(Flat)
    /\ ~SingleClass(ScoresNew)
    /\ LET c == Unpack(Flat)
       IN /\ precisions' = Append(precisions, PrecisionOf(labels, ScoresNew))
          /\ recalls' = Append(recalls, RecallOf(labels, ScoresNew))
          /\ tn_counts' = Append(tn_counts, c.tn)
          /\ fp_counts' = Append(fp_counts, c.fp)
          /\ fn_counts' = Append(fn_counts, c.fn)
          /\ tp_counts' = Append(tp_counts, c.tp)
    /\ idx' = idx + 1
    /\ UNCHANGED pc
    /\ KeepPR

(* evaluate.py:108 *)
Return ==
    /\ pc = "loop" /\ idx > Len(thresholds)
    /\ pc' = "returned"
    /\ UNCHANGED <<idx, tp_counts, fp_counts, tn_counts, fn_counts,
                   precisions, recalls>>
    /\ KeepPR

NextPR == IterRaise \/ IterSkip \/ IterAppend \/ Return
SpecPR == InitPR /\ [][NextPR]_vars


----------------------------------------------------------------------------
(* Properties of get_values_for_pr_curve *)

BothClasses(t) == Range(Binarize(scores, t)) = {0, 1}
TruePos(t) == Count({i \in DOMAIN scores : labels[i] = 1 /\ scores[i] >= t})
FalsePos(t) == Count({i \in DOMAIN scores : labels[i] = 0 /\ scores[i] >= t})
TrueNeg(t) == Count({i \in DOMAIN scores : labels[i] = 0 /\ scores[i] < t})
FalseNeg(t) == Count({i \in DOMAIN scores : labels[i] = 1 /\ scores[i] < t})
(* the thresholds already visited by the loop whose predictions hold 0 and 1 *)
Retained == SelectSeq(SubSeq(thresholds, 1, idx - 1), BothClasses)

(* C1: whenever the predictions at the current threshold are all one class, *)
(* the iteration skips the threshold: the loop goes on to the next          *)
(* threshold, nothing is appended and the call does not fail                *)
C1_SingleClassSkipped ==
    [][(InLoop /\ SingleClass(ScoresNew)) =>
          /\ pc' = "loop" /\ idx' = idx + 1
          /\ UNCHANGED <<tp_counts, fp_counts, tn_counts, fn_counts,
                         precisions, recalls>>]_vars

(* C2: when the call returns, the six sequences have one common length, at  *)
(* most the number of thresholds, and their entries are those of exactly    *)
(* the thresholds, in input order, whose predictions hold both 0 and 1      *)
C2_RetainedExactly ==
    pc = "returned" =>
        /\ Len(tp_counts) = Len(Retained)
        /\ Len(fp_counts) = Len(tp_counts) /\ Len(tn_counts) = Len(tp_counts)
        /\ Len(fn_counts) = Len(tp_counts) /\ Len(precisions) = Len(tp_counts)
        /\ Len(recalls) = Len(tp_counts)
        /\ Len(tp_counts) <= Len(thresholds)
        /\ \A k \in 1..Len(Retained) :
              /\ tp_counts[k] = TruePos(Retained[k])
              /\ precisions[k] = <<TruePos(Retained[k]),
                                   TruePos(Retained[k]) + FalsePos(Retained[k])>>
              /\ recalls[k] = Frac(TruePos(Retained[k]),
                                   TruePos(Retained[k]) + FalseNeg(Retained[k]))

C2_Witness ==
    /\ pc = "returned"
    /\ Len(tp_counts) >= 1
    /\ Len(tp_counts) < Len(thresholds)

(* C3: at every retained threshold the four recorded counts are the counts  *)
(* of (label 1, pred 1), (label 0, pred 1), (label 0, pred 0) and           *)
(* (label 1, pred 0), and they add up to the number of samples              *)
C3_CountsSumToSamples ==
    pc \in {"loop", "returned"} =>
        \A k \in 1..Len(tp_counts) :
            /\ k <= Len(Retained)
            /\ tp_counts[k] = TruePos(Retained[k])
            /\ fp_counts[k] = FalsePos(Retained[k])
            /\ tn_counts[k] = TrueNeg(Retained[k])
            /\ fn_counts[k] = FalseNeg(Retained[k])
            /\ tp_counts[k] + fp_counts[k] + tn_counts[k] + fn_counts[k]
                  = Len(scores)

C3_Witness ==
    /\ pc = "returned"
    /\ Len(tp_counts) = 2
    /\ fp_counts[1] # fn_counts[1]
    /\ tp_counts[1] # tp_counts[2]

----------------------------------------------------------------------------
(* evaluate, roc, auprc *)

MaxCalls == 2
MaxEpoch == 1

Metrics == {"roc", "auprc", "f1_score", "unknown"}

(* np.inf, the threshold sklearn's roc_curve gives the leading (0, 0) point: *)
(* a value above every score                                                *)
Inf == One + Threshold + 3

Abs(x) == IF x < 0 THEN -x ELSE x

BinaryClfCurvePosLabel0(y_true, y_score) ==
    LET d == SortedDesc(Range(y_score))
    IN [k \in 1..Len(d) |->
          [fps |-> Count({i \in DOMAIN y_score :
                            y_score[i] >= d[k] /\ y_true[i] # 0}),
           tps |-> Count({i \in DOMAIN y_score :
                            y_score[i] >= d[k] /\ y_true[i] = 0}),
           thr |-> d[k]]]
(* sklearn _binary_clf_curve: one point per distinct score, by decreasing   *)
(* score, with the cumulated false and true positives at that score         *)
BinaryClfCurve(y_true, y_score) ==
    LET d == SortedDesc(Range(y_score))
    IN [k \in 1..Len(d) |->
          [fps |-> Count({i \in DOMAIN y_score :
                            y_score[i] >= d[k] /\ y_true[i] # 1}),
           tps |-> Count({i \in DOMAIN y_score :
                            y_score[i] >= d[k] /\ y_true[i] = 1}),
           thr |-> d[k]]]

(* sklearn roc_curve(drop_intermediate=True): keep the first and the last   *)
(* point and every point where the second difference of fps or tps is not 0 *)
DropIntermediate(c) ==
    IF Len(c) <= 2 THEN c
    ELSE LET keep == {1, Len(c)} \cup
                 {k \in 2..(Len(c) - 1) :
                     \/ (c[k + 1].fps - c[k].fps) # (c[k].fps - c[k - 1].fps)
                     \/ (c[k + 1].tps - c[k].tps) # (c[k].tps - c[k - 1].tps)}
             ks == SortedAsc(keep)
         IN [j \in 1..Len(ks) |-> c[ks[j]]]

(* evaluate.py:50  fpr, tpr, t = roc_curve(labels, scores), as counts: the  *)
(* rates are fps / N and tps / P                                            *)
roc_curve(y_true, y_score) ==
    <<[fps |-> 0, tps |-> 0, thr |-> Inf]>>
        \o DropIntermediate(BinaryClfCurve(y_true, y_score))

Positives(c) == c[Len(c)].tps
Negatives(c) == c[Len(c)].fps

RECURSIVE Trapezoid(_, _)
Trapezoid(c, i) ==
    IF i >= Len(c) THEN 0
    ELSE (c[i + 1].fps - c[i].fps) * (c[i + 1].tps + c[i].tps)
            + Trapezoid(c, i + 1)

(* evaluate.py:51  roc_auc = auc(fpr, tpr): the trapezoidal rule *)
auc(c) == <<Trapezoid(c, 1), 2 * Positives(c) * Negatives(c)>>

(* evaluate.py:55  tf = tpr - (1 - fpr), times P * N *)
tf(c, i) ==
    Negatives(c) * c[i].tps + Positives(c) * c[i].fps
        - Positives(c) * Negatives(c)

(* evaluate.py:56  (roc.tf - 0).abs().argsort()[:1]: an index of minimal    *)
(* |tf|; argsort is numpy's quicksort, which fixes no order among ties      *)
ArgsortFirst(c) ==
    {i \in 1..Len(c) : \A j \in 1..Len(c) : Abs(tf(c, i)) <= Abs(tf(c, j))}

(* evaluate.py:61  1. - x - interp1d(fpr, tpr)(x) at the curve point j,     *)
(* times P * N                                                              *)
EerFn(c, j) ==
    Positives(c) * Negatives(c) - Positives(c) * c[j].fps
        - Negatives(c) * c[j].tps

(* numpy interp (behind interp1d) at x = 0: the value at the last point     *)
(* whose fpr is <= 0                                                        *)
InterpAtZero(c) ==
    LET j == CHOOSE k \in 1..Len(c) :
                 /\ c[k].fps = 0
                 /\ \A m \in 1..Len(c) : c[m].fps = 0 => m <= k
    IN c[j].tps

(* evaluate.py:61  eer = brentq(f, 0., 1.): brentq returns 0 when f(0) = 0; *)
(* otherwise it converges to the point where f changes sign, between the    *)
(* last curve point j with f >= 0 and its successor                         *)
eer(c) ==
    IF Positives(c) - InterpAtZero(c) = 0 THEN <<0, 1>>
    ELSE LET j == CHOOSE k \in 1..(Len(c) - 1) :
                      EerFn(c, k) >= 0 /\ EerFn(c, k + 1) < 0
             d == EerFn(c, j) - EerFn(c, j + 1)
         IN <<c[j].fps * d + EerFn(c, j) * (c[j + 1].fps - c[j].fps),
              Negatives(c) * d>>

(* sklearn average_precision_score: the sum over the curve points of        *)
(* (recall step) * precision, as a sequence of fractions                    *)
average_precision_score(y_true, y_score) ==
    LET c == BinaryClfCurve(y_true, y_score)
    IN [k \in 1..Len(c) |->
          Frac((c[k].tps - (IF k = 1 THEN 0 ELSE c[k - 1].tps)) * c[k].tps,
               Positives(c) * (c[k].tps + c[k].fps))]

AssignOnesStrict(sc) == [i \in DOMAIN sc |-> IF sc[i] > Threshold THEN One ELSE sc[i]]
(* evaluate.py:32  scores[scores >= threshold] = 1 *)
AssignOnes(sc) == [i \in DOMAIN sc |-> IF sc[i] >= Threshold THEN One ELSE sc[i]]
(* evaluate.py:33  scores[scores < threshold] = 0 *)
AssignZeros(sc) == [i \in DOMAIN sc |-> IF sc[i] < Threshold THEN 0 ELSE sc[i]]

(* sklearn f1_score(labels, scores), pos_label = 1 *)
f1_score(y_true, y_pred) ==
    LET tp == Count({i \in DOMAIN y_true : y_true[i] = 1 /\ y_pred[i] = One})
        fp == Count({i \in DOMAIN y_true : y_true[i] # 1 /\ y_pred[i] = One})
        fn == Count({i \in DOMAIN y_true : y_true[i] = 1 /\ y_pred[i] # One})
    IN Frac(2 * tp, 2 * tp + fp + fn)

DispatchDefaultRoc(m) ==
    IF m = "auprc" THEN "auprc" ELSE IF m = "f1_score" THEN "f1_score" ELSE "roc"
(* evaluate.py:26-36  the if / elif chain *)
Dispatch(m) ==
    IF m = "roc" THEN "roc"
    ELSE IF m = "auprc" THEN "auprc"
    ELSE IF m = "f1_score" THEN "f1_score"
    ELSE "raise"

InitEval ==
    /\ \E n \in 1..MaxSamples :
          /\ labels \in [1..n -> LabelVals]
          /\ scores \in [1..n -> ScoreVals]
    /\ EvIdle /\ PrIdle /\ VisIdle

KeepEval == UNCHANGED <<prVars, visVars>>
TwoClasses(y_true) == Range(y_true) = {0, 1}
PlotName(output_directory, epoch) ==
    [dir |-> output_directory, epoch |-> epoch]

(* evaluate.py:27, 39-78  metric 'roc' on labels holding both classes *)
EvaluateRoc(m, epoch) ==
    /\ calls < MaxCalls
    /\ Dispatch(m) = "roc"
    /\ TwoClasses(labels)
    /\ LET c == roc_curve(labels, scores)
       IN /\ \E i \in ArgsortFirst(c) :
                result' = [status |-> "ok", roc_auc |-> auc(c),
                           threshold |-> c[i].thr,
                           t |-> [k \in 1..Len(c) |-> c[k].thr],
                           eer |-> eer(c)]
          /\ plot_files' = (PlotName("./", epoch) :>
                               [roc_auc |-> auc(c), eer |-> eer(c)])
                           @@ plot_files
    /\ metric' = m /\ calls' = calls + 1
    /\ UNCHANGED <<labels, scores>>
    /\ KeepEval

(* evaluate.py:27, 50-61  metric 'roc' on labels of one class: the rates    *)
(* are NaN, and brentq either rejects the NaN end points or returns NaN     *)
EvaluateRocOneClass(m, epoch) ==
    /\ calls < MaxCalls
    /\ Dispatch(m) = "roc"
    /\ ~TwoClasses(labels)
    /\ \/ /\ result' = [status |-> "ValueError"]
          /\ UNCHANGED plot_files
       \/ /\ result' = [status |-> "ok", roc_auc |-> "nan"]
          /\ plot_files' = (PlotName("./", epoch) :>
                               [roc_auc |-> "nan", eer |-> "nan"])
                           @@ plot_files
    /\ metric' = m /\ calls' = calls + 1
    /\ UNCHANGED <<labels, scores>>
    /\ KeepEval

(* evaluate.py:28-29, 80-82 *)
EvaluateAuprc(m) ==
    /\ calls < MaxCalls
    /\ Dispatch(m) = "auprc"
    /\ result' = [status |-> "ok", ap |-> average_precision_score(labels, scores)]
    /\ metric' = m /\ calls' = calls + 1
    /\ UNCHANGED <<labels, scores, plot_files>>
    /\ KeepEval

(* evaluate.py:30-34 *)
EvaluateF1(m) ==
    /\ calls < MaxCalls
    /\ Dispatch(m) = "f1_score"
    /\ scores' = AssignZeros(AssignOnes(scores))
    /\ result' = [status |-> "ok", f1 |-> f1_score(labels, scores')]
    /\ metric' = m /\ calls' = calls + 1
    /\ UNCHANGED <<labels, plot_files>>
    /\ KeepEval

(* evaluate.py:35-36 *)
EvaluateRaise(m) ==
    /\ calls < MaxCalls
    /\ Dispatch(m) = "raise"
    /\ result' = [status |-> "NotImplementedError"]
    /\ metric' = m /\ calls' = calls + 1
    /\ UNCHANGED <<labels, scores, plot_files>>
    /\ KeepEval

NextEval ==
    \E m \in Metrics, epoch \in 0..MaxEpoch :
        \/ EvaluateRoc(m, epoch)
        \/ EvaluateRocOneClass(m, epoch)
        \/ EvaluateAuprc(m)
        \/ EvaluateF1(m)
        \/ EvaluateRaise(m)
SpecEval == InitEval /\ [][NextEval]_vars

----------------------------------------------------------------------------
(* Properties of evaluate and roc *)

(* C4: a call of evaluate with a metric name other than 'roc', 'auprc' or   *)
(* 'f1_score' ends in NotImplementedError, writes no plot file and leaves   *)
(* labels and scores as they were                                           *)
C4_UnsupportedMetricRaises ==
    [][(calls' = calls + 1 /\ metric' \notin {"roc", "auprc", "f1_score"}) =>
          /\ result'.status = "NotImplementedError"
          /\ plot_files' = plot_files
          /\ scores' = scores
          /\ labels' = labels]_vars

C4_Witness ==
    /\ calls = 2
    /\ metric = "unknown"
    /\ result.status = "NotImplementedError"
    /\ DOMAIN plot_files # {}

(* C5: a call of evaluate with metric 'f1_score' leaves every score at 1 if *)
(* it was >= 0.20 before the call and at 0 otherwise, and returns an F1     *)
(* value in [0, 1]                                                          *)
C5_F1BinarizesInPlace ==
    [][(calls' = calls + 1 /\ metric' = "f1_score") =>
          /\ DOMAIN scores' = DOMAIN scores
          /\ \A i \in DOMAIN scores :
                scores'[i] = IF scores[i] >= 20 THEN 100 ELSE 0
          /\ result'.status = "ok"
          /\ 0 <= result'.f1[1]
          /\ result'.f1[1] <= result'.f1[2]
          /\ result'.f1[2] > 0]_vars

C5_Witness ==
    /\ metric = "f1_score"
    /\ \E i, j \in DOMAIN scores : scores[i] = 100 /\ scores[j] = 0
    /\ result.f1[1] > 0
    /\ result.f1[1] < result.f1[2]

PerfectSeparator ==
    /\ TwoClasses(labels)
    /\ \A i, j \in DOMAIN labels :
          (labels[i] = 1 /\ labels[j] = 0) => scores[i] > scores[j]

(* C6: on a perfect separator the ROC computation gives AUC = 1 and an      *)
(* equal error rate of 0                                                    *)
C6_PerfectSeparator ==
    (metric = "roc" /\ result.status = "ok" /\ PerfectSeparator) =>
        /\ result.roc_auc[1] = result.roc_auc[2]
        /\ result.roc_auc[2] > 0
        /\ result.eer[1] = 0
        /\ result.eer[2] > 0

C6_Witness ==
    /\ metric = "roc" /\ result.status = "ok" /\ PerfectSeparator
    /\ Len(scores) = 3
    /\ Len(result.t) = 3

(* C7: for every input holding both classes the balanced threshold is one   *)
(* of the input scores, and it is the threshold of a curve point at which   *)
(* |TPR - (1 - FPR)| is minimal                                             *)
C7_BalancedThresholdIsScore ==
    (metric = "roc" /\ result.status = "ok" /\ TwoClasses(labels)) =>
        /\ result.threshold \in Range(scores)
        /\ LET c == roc_curve(labels, scores)
           IN \E i \in 1..Len(c) :
                 /\ c[i].thr = result.threshold
                 /\ \A j \in 1..Len(c) : Abs(tf(c, i)) <= Abs(tf(c, j))

----------------------------------------------------------------------------
(* class Visualizer *)

MaxOps == 3
MaxBatch == 2

NL == "\n"
NumNL(text) == Count({i \in DOMAIN text : text[i] = NL})

RECURSIVE Flatten(_)
Flatten(ss) == IF ss = <<>> THEN <<>> ELSE Head(ss) \o Flatten(Tail(ss))

RECURSIVE Digits(_)
(* the decimal digits of n >= 0 *)
Digits(n) ==
    IF n < 10 THEN <<ToString(n)>>
    ELSE Digits(n \div 10) \o <<ToString(n % 10)>>

(* '%03d' % n for n >= 0: zero-padded to at least three digits *)
Fmt03d(n) ==
    LET d == Digits(n)
    IN IF Len(d) >= 3 THEN d ELSE [i \in 1..(3 - Len(d)) |-> "0"] \o d

(* '%.3f' % v, v given in thousandths *)
Fmt3f(v) ==
    <<ToString(v \div 1000), ".", ToString((v \div 100) % 10),
      ToString((v \div 10) % 10), ToString(v % 10)>>

(* '%s' % val for a confusion matrix: numpy prints an array one row per    *)
(* line, a list of lists prints on one line                                 *)
FmtS(val) ==
    IF val.kind = "ndarray"
    THEN [i \in 1..(2 * Len(val.rows) - 1) |->
             IF i % 2 = 1 THEN val.rows[(i + 1) \div 2] ELSE NL]
    ELSE <<"[">> \o val.rows \o <<"]">>

(* the values the caller passes *)
EpochVals == (0..MaxEpoch) \cup {9, 999}
ErrorsVals ==
    {<<>>,
     <<[key |-> "err_d", val |-> 500], [key |-> "err_g", val |-> 12007]>>}
ConfMatrixVals ==
    {[kind |-> "ndarray", rows |-> <<"[[1 2]", " [3 4]]">>],
     [kind |-> "list", rows |-> <<"[1, 2]", "[3, 4]">>]}
PerformanceVals ==
    {<<[key |-> "AUC", val |-> 750]>>}
    \cup {<<[key |-> "Avg Run Time (ms/batch)", val |-> 3100],
            [key |-> "AUC", val |-> 981],
            [key |-> "conf_matrix", val |-> cm]>> : cm \in ConfMatrixVals}
TextVals == {<<"text">>, <<"first", NL, "second">>}
PrCurveVals ==
    {[labels |-> <<0, 1>>, scores |-> <<19, 21>>, thresholds |-> <<18, 20>>],
     [labels |-> <<0, 0>>, scores |-> <<19, 19>>, thresholds |-> <<20>>]}

(* visualizer.py:56-58  title + info *)
Header ==
    <<"================ now ================", NL,
      "Anomalies, nz, w_adv, w_con, w_lat", NL>>

write_to_log_file_truncating(lg, text) == text \o <<NL>>
(* visualizer.py:125-127  open(self.log_name, "a"), write('%s\n' % text) *)
write_to_log_file(lg, text) == lg \o text \o <<NL>>

(* visualizer.py:116-118  the message of print_current_errors *)
ErrorsMessage(epoch, errors) ==
    <<"   Loss: [", ToString(epoch), "/", ToString(niter), "] ">>
    \o Flatten([i \in DOMAIN errors |->
                   <<errors[i].key, ": ">> \o Fmt3f(errors[i].val) \o <<" ">>])

(* visualizer.py:137-144  the message of print_current_performance *)
PerformanceMessage(performance, best) ==
    <<"   ">>
    \o Flatten([i \in DOMAIN performance |->
                   IF performance[i].key = "conf_matrix"
                   THEN <<performance[i].key, ": ">>
                            \o FmtS(performance[i].val) \o <<" ">>
                   ELSE <<performance[i].key, ": ">>
                            \o Fmt3f(performance[i].val) \o <<" ">>])
    \o <<"max AUC: ">> \o Fmt3f(best)

WriterCallGuarded(w) == "ok"
(* self.writer.<method>(...): an attribute of None cannot be looked up *)
WriterCall(w) == IF w = "None" THEN "AttributeError" ELSE "ok"

FileName(base, num) == [base |-> base, num |-> num, ext |-> ".png"]
FixedNameOfEpoch(epoch) == FileName("fixed_fakes_", Fmt03d(epoch))
(* visualizer.py:181  '%s/fixed_fakes_%03d.png' % (self.img_dir, epoch+1) *)
FixedName(epoch) == FileName("fixed_fakes_", Fmt03d(epoch + 1))

(* get_values_for_pr_curve raises at some threshold (evaluate.py:93) *)
PrCurveRaises(a) ==
    \E k \in DOMAIN a.thresholds :
        UnpackFails(ravel(confusion_matrix(a.labels,
                                           Binarize(a.scores, a.thresholds[k]))))

InitVis ==
    /\ constructed = FALSE /\ display = FALSE /\ niter = 0 /\ writer = "None"
    /\ old_log \in {<<>>, <<"earlier run", NL>>}
    /\ log = old_log
    /\ img_files = <<>> /\ dashboard = {}
    /\ last_call = [op |-> "none"] /\ epochs_saved = {} /\ ops = 0
    /\ labels = <<>> /\ scores = <<>>
    /\ EvIdle /\ PrIdle

KeepVis == UNCHANGED <<labels, scores, prVars, evVars, old_log>>
Ready == constructed /\ ops < MaxOps

(* visualizer.py:26-59 *)
Construct(opt_display, opt_niter) ==
    /\ ~constructed
    /\ constructed' = TRUE
    /\ display' = opt_display /\ niter' = opt_niter
    /\ writer' = IF opt_display THEN "SummaryWriter" ELSE "None"
    /\ log' = write_to_log_file(log, Header)
    /\ last_call' = [op |-> "__init__", status |-> "ok"]
    /\ UNCHANGED <<img_files, dashboard, epochs_saved, ops>>
    /\ KeepVis

(* a call that only forwards to the dashboard *)
Forward(op, status, sent) ==
    /\ Ready
    /\ last_call' = [op |-> op, status |-> status]
    /\ dashboard' = IF status = "ok" THEN dashboard \cup sent ELSE dashboard
    /\ ops' = ops + 1
    /\ UNCHANGED <<constructed, display, niter, writer, log, img_files,
                   epochs_saved>>
    /\ KeepVis

(* visualizer.py:76-84 *)
plot_current_errors(errors) ==
    Forward("plot_current_errors", WriterCall(writer),
            {[tag |-> "Loss over time",
              data |-> [i \in DOMAIN errors |-> errors[i].key]]})

(* visualizer.py:88-97 *)
plot_performance(performance) ==
    Forward("plot_performance", WriterCall(writer),
            {[tag |-> "Performance Metrics",
              data |-> LET Kept(e) == /\ e.key # "conf_matrix"
                                      /\ e.key # "Avg Run Time (ms/batch)"
                           kept == SelectSeq(performance, Kept)
                       IN [i \in DOMAIN kept |-> kept[i].key]]})

(* visualizer.py:100-102 *)
plot_current_conf_matrix(cm) ==
    Forward("plot_current_conf_matrix", WriterCall(writer),
            {[tag |-> "Confusion Matrix", data |-> cm.rows]})

(* visualizer.py:149-163 *)
display_current_images(batch) ==
    Forward("display_current_images", WriterCall(writer),
            {[tag |-> "Reals from train step: ", data |-> <<"reals", batch>>],
             [tag |-> "Fakes from train step: ", data |-> <<"fakes", batch>>]})

(* visualizer.py:165-168 *)
plot_pr_curve(a) ==
    Forward("plot_pr_curve",
            IF PrCurveRaises(a) THEN "ValueError" ELSE WriterCall(writer),
            {[tag |-> "Precision_recall_curve", data |-> a.thresholds]})

(* a call that appends to the text log *)
LogCall(call, new_log) ==
    /\ Ready
    /\ last_call' = call
    /\ log' = new_log
    /\ ops' = ops + 1
    /\ UNCHANGED <<constructed, display, niter, writer, img_files, dashboard,
                   epochs_saved>>
    /\ KeepVis

(* visualizer.py:106-122 *)
print_current_errors(epoch, errors) ==
    LogCall([op |-> "print_current_errors", status |-> "ok"],
            log \o ErrorsMessage(epoch, errors) \o <<NL>>)

(* visualizer.py:125-127, called by the training loop *)
WriteToLogFile(text) ==
    LogCall([op |-> "write_to_log_file", status |-> "ok", text |-> text],
            write_to_log_file(log, text))

(* visualizer.py:130-147 *)
print_current_performance(performance, best) ==
    LogCall([op |-> "print_current_performance", status |-> "ok",
             performance |-> performance],
            write_to_log_file(log, PerformanceMessage(performance, best)))

(* visualizer.py:170-181 *)
save_current_images(epoch, batch) ==
    /\ Ready
    /\ img_files' = (FixedName(epoch) :> <<"fixed", batch>>)
                    @@ (FileName("fakes", <<>>) :> <<"fakes", batch>>)
                    @@ (FileName("reals", <<>>) :> <<"reals", batch>>)
                    @@ img_files
    /\ epochs_saved' = epochs_saved \cup {epoch}
    /\ last_call' = [op |-> "save_current_images", status |-> "ok",
                     epoch |-> epoch, batch |-> batch]
    /\ ops' = ops + 1
    /\ UNCHANGED <<constructed, display, niter, writer, log, dashboard>>
    /\ KeepVis

NextVis ==
    \/ \E d \in BOOLEAN : Construct(d, MaxEpoch + 1)
    \/ \E e \in ErrorsVals : plot_current_errors(e)
    \/ \E p \in PerformanceVals : plot_performance(p)
    \/ \E cm \in ConfMatrixVals : plot_current_conf_matrix(cm)
    \/ \E b \in 1..MaxBatch : display_current_images(b)
    \/ \E a \in PrCurveVals : plot_pr_curve(a)
    \/ \E epoch \in 0..MaxEpoch, e \in ErrorsVals : print_current_errors(epoch, e)
    \/ \E t \in TextVals : WriteToLogFile(t)
    \/ \E p \in PerformanceVals : print_current_performance(p, 981)
    \/ \E epoch \in EpochVals, b \in 1..MaxBatch : save_current_images(epoch, b)
SpecVis == InitVis /\ [][NextVis]_vars

----------------------------------------------------------------------------
(* Properties of Visualizer *)

IsPrefix(a, b) == Len(a) <= Len(b) /\ SubSeq(b, 1, Len(a)) = a
Called(op) == ops' = ops + 1 /\ last_call'.op = op
LogOps == {"print_current_errors", "print_current_performance",
           "write_to_log_file"}
ForwardOps == {"plot_current_errors", "plot_performance",
               "plot_current_conf_matrix", "display_current_images",
               "plot_pr_curve"}

(* the header is in the log right behind the content the file had before    *)
(* construction, ahead of every line logged later                           *)
HeaderFirst ==
    constructed' =>
        /\ Len(log') >= Len(old_log) + 5
        /\ SubSeq(log', 1, Len(old_log)) = old_log
        /\ SubSeq(log', Len(old_log) + 1, Len(old_log) + 5) =
              <<"================ now ================", "\n",
                "Anomalies, nz, w_adv, w_con, w_lat", "\n", "\n">>

(* the log changes only by appending, and only in the constructor and the   *)
(* three logging methods                                                    *)
AppendOnly ==
    /\ IsPrefix(log, log')
    /\ log' # log =>
          /\ log'[Len(log')] = "\n"
          /\ \/ (~constructed /\ constructed')
             \/ \E op \in LogOps : Called(op)
    /\ \A op \in LogOps : Called(op) => log' # log

(* line breaks inside the message of a print_current_performance call: one  *)
(* per row after the first of a conf_matrix that is a numpy array           *)
RowBreaks(performance) ==
    IF \E i \in DOMAIN performance :
          /\ performance[i].key = "conf_matrix"
          /\ performance[i].val.kind = "ndarray"
    THEN 1 ELSE 0

(* C8, as claimed: the log is append-only, the header comes first, and each *)
(* logged event appends exactly one line                                    *)
C8_OneLinePerEvent ==
    [][/\ HeaderFirst
       /\ AppendOnly
       /\ \A op \in LogOps :
             Called(op) => NumNL(log') = NumNL(log) + 1]_vars

(* C8, amended: the log is append-only, the header comes first, and each    *)
(* logged event appends one message ended by a newline: one line for        *)
(* print_current_errors, and 1 + k lines for write_to_log_file and          *)
(* print_current_performance when the text holds k line breaks              *)
C8_AppendOnlyLog ==
    [][/\ HeaderFirst
       /\ AppendOnly
       /\ Called("print_current_errors") => NumNL(log') = NumNL(log) + 1
       /\ Called("write_to_log_file") =>
             NumNL(log') = NumNL(log) + 1 + NumNL(last_call'.text)
       /\ Called("print_current_performance") =>
             NumNL(log') = NumNL(log) + 1 + RowBreaks(last_call'.performance)
      ]_vars

C8_Witness ==
    /\ constructed
    /\ old_log # <<>>
    /\ last_call.op = "print_current_performance"
    /\ RowBreaks(last_call.performance) = 1
    /\ ops = 3

(* the decimal numeral of n, zero-padded to three digits, for n < 10000 *)
Numeral(n) ==
    IF n < 10 THEN <<"0", "0", ToString(n)>>
    ELSE IF n < 100 THEN <<"0", ToString(n \div 10), ToString(n % 10)>>
    ELSE IF n < 1000
         THEN <<ToString(n \div 100), ToString((n \div 10) % 10),
                ToString(n % 10)>>
    ELSE <<ToString(n \div 1000), ToString((n \div 100) % 10),
           ToString((n \div 10) % 10), ToString(n % 10)>>
Png(base, num) == [base |-> base, num |-> num, ext |-> ".png"]
FixedFiles(files) == {f \in DOMAIN files : f.base = "fixed_fakes_"}

(* C9, as claimed: a save_current_images call leaves a fixed_fakes file     *)
(* named by the epoch it was passed (plain or zero-padded)                  *)
C9_NamedByEpoch ==
    [][Called("save_current_images") =>
          \E f \in FixedFiles(img_files') :
              f.num \in {Numeral(last_call'.epoch),
                         <<ToString(last_call'.epoch)>>}]_vars

(* C9, amended: a save_current_images call writes exactly reals.png,        *)
(* fakes.png and fixed_fakes_<epoch + 1, zero-padded to three digits>.png,  *)
(* and leaves every other file alone; the directory holds one fixed_fakes   *)
(* file per distinct epoch passed, and reals.png and fakes.png hold the     *)
(* batches of the last call                                                 *)
C9_ThreeFilesPerCall ==
    [][Called("save_current_images") =>
          LET e == last_call'.epoch
              b == last_call'.batch
              written == {Png("reals", <<>>), Png("fakes", <<>>),
                          Png("fixed_fakes_", Numeral(e + 1))}
          IN /\ Cardinality(written) = 3
             /\ DOMAIN img_files' = DOMAIN img_files \cup written
             /\ img_files'[Png("reals", <<>>)] = <<"reals", b>>
             /\ img_files'[Png("fakes", <<>>)] = <<"fakes", b>>
             /\ img_files'[Png("fixed_fakes_", Numeral(e + 1))] = <<"fixed", b>>
             /\ \A f \in DOMAIN img_files \ written : img_files'[f] = img_files[f]
             /\ FixedFiles(img_files') =
                   {Png("fixed_fakes_", Numeral(x + 1)) : x \in epochs_saved'}
             /\ Cardinality(FixedFiles(img_files')) = Cardinality(epochs_saved')
      ]_vars

C9_Witness ==
    /\ last_call.op = "save_current_images"
    /\ Cardinality(epochs_saved) = 3
    /\ 9 \in epochs_saved /\ 999 \in epochs_saved
    /\ Cardinality(DOMAIN img_files) = 5

(* C10: the writer is assigned only by the constructor and is not None      *)
(* exactly when display was set; without it every dashboard call ends in an *)
(* error and sends nothing, while the logging calls and save_current_images *)
(* succeed                                                                  *)
C10_WriterOnlyWithDisplay ==
    [][/\ writer' # writer => (~constructed /\ constructed')
       /\ constructed' => ((writer' # "None") <=> display')
       /\ \A op \in ForwardOps :
             (Called(op) /\ ~display) =>
                 /\ last_call'.status \in {"AttributeError", "ValueError"}
                 /\ dashboard' = dashboard
       /\ \A op \in LogOps \cup {"save_current_images"} :
             Called(op) => last_call'.status = "ok"]_vars

C10_Witness ==
    /\ constructed /\ ~display /\ writer = "None"
    /\ last_call.op = "plot_pr_curve"
    /\ last_call.status = "AttributeError"
    /\ ops = 3
    /\ dashboard = {}
    /\ Len(log) > Len(old_log) + 5
    /\ DOMAIN img_files # {}

=============================================================================
